---- MODULE Spec2Model ----
(***************************************************************************)
(* Model of clients/cli/src/prover/pipeline.rs: ProvingPipeline.           *)
(*                                                                         *)
(* prove_authenticated dispatches on the program id to prove_fib_task,     *)
(* which spawns one tokio task per input, bounds the tasks with a          *)
(* semaphore of num_workers permits, awaits all join handles with          *)
(* join_all, and then walks the results in handle order.                   *)
(***************************************************************************)
EXTENDS Integers, Sequences, FiniteSets, TLC

(* ---- bounds of the model ---- *)
MaxUnits == 3
MaxWorkers == 2
MaxProof == 2

(* ---- values ---- *)
\* Byte lengths of the raw input payloads the job may carry.
InputLens == {8, 12}
\* program ids a task may carry
ProgramIds == {"fib_input_initial", "other_program"}
\* task types (nexus_orchestrator::TaskType)
TaskTypes == {"ProofRequired", "ProofHash", "AllProofHashes"}
\* proofs the engine may produce
Proofs == 1..MaxProof
\* errors of ProvingEngine::prove_and_validate
RecoverableErrors == {"Stwo", "GuestProgram"}
EngineFatalErrors == {"Subprocess"}
EngineErrors == RecoverableErrors \cup EngineFatalErrors
\* modulus of the modelled digest space
HashSpace == 31

VARIABLES
    programId,      \* task.program_id
    taskType,       \* task.task_type
    inputs,         \* task.all_inputs(): sequence of payloads (byte lengths)
    numWorkers,     \* num_workers
    pc,             \* position of prove_authenticated / prove_fib_task
    task,           \* position of each spawned task
    outcome,        \* what each task's join handle resolves to
    permits,        \* permits available in the semaphore
    holds,          \* holds[i]: task i owns a permit (_permit is alive)
    cancelled,      \* cancellation_token state
    parsed,         \* parsed[i]: calls of InputParser::parse_triple_input by task i
    invoked,        \* invoked[i]: calls of ProvingEngine::prove_and_validate by task i
    outOfOrder,     \* some task completed before a task of lower index did
    results,        \* output of join_all
    resultIndex,    \* next element of results to process (1-based)
    allProofs,      \* all_proofs
    proofHashes,    \* proof_hashes
    verificationFailures, \* verification_failures
    reports,        \* track_verification_failed calls spawned
    result,         \* value returned by prove_authenticated
    cHashes,        \* combine_proof_hashes alone: the proof_hashes argument
    cOther,         \* combine_proof_hashes alone: a second proof_hashes argument
    cOut            \* combine_proof_hashes alone: the values returned for the two

vars == <<programId, taskType, inputs, numWorkers, pc, task, outcome, permits,
          holds, cancelled, parsed, invoked, outOfOrder, results, resultIndex,
          allProofs, proofHashes, verificationFailures, reports, result,
          cHashes, cOther, cOut>>

combinerVars == <<cHashes, cOther, cOut>>
jobVars == <<programId, taskType, inputs, numWorkers>>
taskVars == <<task, outcome, permits, holds, parsed, invoked, outOfOrder>>
collectVars == <<results, resultIndex, allProofs, proofHashes,
                 verificationFailures, reports, result>>

Units == 1..Len(inputs)

(* ---- records ---- *)
NoOutcome == [kind |-> "none", proof |-> 0, hash |-> 0, index |-> 0, err |-> "", msg |-> ""]
\* Ok((proof, proof_hash, input_index))
OkOutcome(p, h, idx) ==
    [kind |-> "Ok", proof |-> p, hash |-> h, index |-> idx, err |-> "", msg |-> ""]
\* Err(e) returned by the task body
ErrOutcome(e, m) ==
    [kind |-> "Err", proof |-> 0, hash |-> 0, index |-> 0, err |-> e, msg |-> m]
\* the task panicked: its JoinHandle yields Err(JoinError) carrying the task id
PanicOutcome(idx) ==
    [kind |-> "Panic", proof |-> 0, hash |-> 0, index |-> idx, err |-> "JoinError", msg |-> "panic"]

NoResult == [kind |-> "none", err |-> "", msg |-> "", id |-> 0, count |-> 0,
             proofs |-> <<>>, hash |-> 0, hashes |-> <<>>]
ErrResult(e, m) == [NoResult EXCEPT !.kind = "Err", !.err = e, !.msg = m]
JoinErrResult(idx) == [NoResult EXCEPT !.kind = "Err", !.err = "JoinError", !.msg = "panic", !.id = idx]
FailedVerificationResult(n) ==
    [NoResult EXCEPT !.kind = "Err", !.err = "MalformedTask",
                     !.msg = "inputs failed verification", !.count = n]
OkResult(ps, h, hs) == [NoResult EXCEPT !.kind = "Ok", !.proofs = ps, !.hash = h, !.hashes = hs]

(* ---- pure functions ---- *)
\* InputParser::parse_triple_input: three little-endian u32 need 12 bytes
ParseTripleInput(len) == len >= 12

\* generate_proof_hash: hex of Keccak256 of the serialized proof
GenerateProofHash(p) == ((p * 5 + 3) % HashSpace) + 1

\* Task::combine_proof_hashes: chained digest of the hashes in order,
\* the empty string (0) for no hashes. The digest is collision-free on the
\* values of the model: each step is an injective encoding of (acc, hash).
RECURSIVE ChainHashes(_, _)
ChainHashes(acc, hs) ==
    IF hs = <<>> THEN acc
    ELSE ChainHashes(acc * (HashSpace + 1) + Head(hs), Tail(hs))

TaskCombineProofHashes(hs) == IF hs = <<>> THEN 0 ELSE ChainHashes(0, hs)

\* (variant: only AllProofHashes is chained, ProofHash takes the first hash)
CombineProofHashesAllOnly(tt, hs) ==
    IF tt \in {"AllProofHashes"}
    THEN TaskCombineProofHashes(hs)
    ELSE IF hs = <<>> THEN 0 ELSE Head(hs)

\* ProvingPipeline::combine_proof_hashes
CombineProofHashes(tt, hs) ==
    IF tt \in {"AllProofHashes", "ProofHash"}
    THEN TaskCombineProofHashes(hs)
    ELSE IF hs = <<>> THEN 0 ELSE Head(hs)

\* (variant: the arm also matches ProverError::Subprocess)
IsVerificationFailureWithSubprocess(e) == e \in {"Stwo", "GuestProgram", "Subprocess"}
\* (variant: the arm also matches ProverError::MalformedTask)
IsVerificationFailureWithMalformed(e) == e \in {"Stwo", "GuestProgram", "MalformedTask"}
\* (variant: the arm matches ProverError::Stwo only)
IsVerificationFailureStwoOnly(e) == e \in {"Stwo"}

\* the match arm  ProverError::Stwo(_) | ProverError::GuestProgram(_)
IsVerificationFailure(e) == e \in {"Stwo", "GuestProgram"}

\* format!("Input {}: {}", result_index, e) with the zero-based result index
FailureMessage(resultIdx, o) == [index |-> resultIdx - 1, err |-> o.err]

(* ---- initial state ---- *)
\* no value returned yet by a call of combine_proof_hashes
NotCalled == -1

\* nothing has run yet
PipelineIdle ==
    /\ pc = "entry"
    /\ task = [i \in Units |-> "unspawned"]
    /\ outcome = [i \in Units |-> NoOutcome]
    /\ permits = 0
    /\ holds = [i \in Units |-> FALSE]
    /\ cancelled = FALSE
    /\ parsed = [i \in Units |-> 0]
    /\ invoked = [i \in Units |-> 0]
    /\ outOfOrder = FALSE
    /\ results = <<>>
    /\ resultIndex = 1
    /\ allProofs = <<>>
    /\ proofHashes = <<>>
    /\ verificationFailures = <<>>
    /\ reports = <<>>
    /\ result = NoResult

Init ==
    /\ programId \in ProgramIds
    /\ taskType \in TaskTypes
    /\ inputs \in UNION {[1..n -> InputLens] : n \in 0..MaxUnits}
    /\ numWorkers \in 0..MaxWorkers
    /\ PipelineIdle
    /\ cHashes = <<>>
    /\ cOther = <<>>
    /\ cOut = [given |-> NotCalled, other |-> NotCalled]

(* ---- exploit_proof_hash_task (not called from anywhere) ---- *)
\* create_minimal_fake_proof: the proof decoded from 32 zero bytes
FakeProof == 0
\* generate_fake_hash: Keccak256 of "task_id:input_index:a:b:c"
GenerateFakeHash(inputIndex, len) == ((inputIndex * 3 + len) % HashSpace) + 1
\* what exploit_proof_hash_task returns: no semaphore, no task, no call of
\* prove_and_validate; fakeProofOk says whether the 32 zero bytes decode
ExploitProofHashTask(fakeProofOk) ==
    IF \E i \in Units : ~ParseTripleInput(inputs[i])
    THEN ErrResult("MalformedTask", "Public inputs buffer too small")
    ELSE IF Len(inputs) > 0 /\ ~fakeProofOk
    THEN ErrResult("Subprocess", "Failed to create fake proof")
    ELSE LET fakeHashes == [i \in Units |-> GenerateFakeHash(i - 1, inputs[i])]
         IN OkResult([i \in Units |-> FakeProof],
                     CombineProofHashes(taskType, fakeHashes), fakeHashes)

(* ---- prove_authenticated ---- *)
\* (variant: ProofHash tasks are answered by exploit_proof_hash_task)
ProveAuthenticatedWithBypass ==
    /\ pc = "entry"
    /\ IF programId = "fib_input_initial" /\ taskType = "ProofHash"
       THEN /\ pc' = "done"
            /\ \E ok \in BOOLEAN : result' = ExploitProofHashTask(ok)
       ELSE IF programId = "fib_input_initial"
       THEN /\ pc' = "fib"
            /\ result' = result
       ELSE /\ pc' = "done"
            /\ result' = ErrResult("MalformedTask", "Unsupported program ID")
    /\ UNCHANGED <<combinerVars, jobVars, taskVars, cancelled, results, resultIndex,
                   allProofs, proofHashes, verificationFailures, reports>>

ProveAuthenticated ==
    /\ pc = "entry"
    /\ IF programId = "fib_input_initial"
       THEN /\ pc' = "fib"
            /\ result' = result
       ELSE /\ pc' = "done"
            /\ result' = ErrResult("MalformedTask", "Unsupported program ID")
    /\ UNCHANGED <<combinerVars, jobVars, taskVars, cancelled, results, resultIndex, allProofs,
                   proofHashes, verificationFailures, reports>>

(* ---- prove_fib_task: empty check, semaphore and token creation ---- *)
\* (variant: no is_empty() check, the job goes on to spawn and join)
ProveFibTaskStartNoEmptyCheck ==
    /\ pc = "fib"
    /\ pc' = IF Len(inputs) = 0 THEN "joining" ELSE "spawning"
    /\ permits' = numWorkers
    /\ cancelled' = FALSE
    /\ UNCHANGED <<combinerVars, jobVars, task, outcome, holds, parsed, invoked, outOfOrder,
                   collectVars>>

ProveFibTaskStart ==
    /\ pc = "fib"
    /\ IF Len(inputs) = 0
       THEN /\ pc' = "done"
            /\ result' = ErrResult("MalformedTask", "No inputs provided for task")
            /\ permits' = permits
       ELSE /\ pc' = "spawning"
            /\ permits' = numWorkers
            /\ result' = result
    /\ cancelled' = FALSE
    /\ UNCHANGED <<combinerVars, jobVars, task, outcome, holds, parsed, invoked, outOfOrder,
                   results, resultIndex, allProofs, proofHashes,
                   verificationFailures, reports>>

\* the map over all_inputs: tokio::spawn of the next input's task
SpawnTask ==
    /\ pc = "spawning"
    /\ \E i \in Units :
        /\ task[i] = "unspawned"
        /\ \A j \in Units : j < i => task[j] # "unspawned"
        /\ task' = [task EXCEPT ![i] = "start"]
        /\ pc' = IF i = Len(inputs) THEN "joining" ELSE "spawning"
    /\ UNCHANGED <<combinerVars, jobVars, outcome, permits, holds, parsed, invoked, outOfOrder,
                   cancelled, collectVars>>

(* ---- the spawned task ---- *)
\* (variant: the permit is not released when the task ends)
FinishKeepingPermit(i, o) ==
    /\ task' = [task EXCEPT ![i] = "finished"]
    /\ outcome' = [outcome EXCEPT ![i] = o]
    /\ UNCHANGED <<permits, holds>>
    /\ outOfOrder' = (outOfOrder \/ \E j \in Units : j < i /\ task[j] # "finished")

\* a task ends: its permit (if any) is dropped and its handle resolves to o
Finish(i, o) ==
    /\ task' = [task EXCEPT ![i] = "finished"]
    /\ outcome' = [outcome EXCEPT ![i] = o]
    /\ permits' = IF holds[i] THEN permits + 1 ELSE permits
    /\ holds' = [holds EXCEPT ![i] = FALSE]
    /\ outOfOrder' = (outOfOrder \/ \E j \in Units : j < i /\ task[j] # "finished")

\* if cancellation_ref.is_cancelled() (before starting)
CheckBeforeStart(i) ==
    /\ task[i] = "start"
    /\ IF cancelled
       THEN /\ Finish(i, ErrOutcome("MalformedTask", "Task cancelled"))
       ELSE /\ task' = [task EXCEPT ![i] = "waiting"]
            /\ UNCHANGED <<outcome, permits, holds, outOfOrder>>
    /\ UNCHANGED <<combinerVars, jobVars, pc, cancelled, parsed, invoked, collectVars>>

\* (variant: the permit is taken without waiting for a free one)
AcquirePermitNoWait(i) ==
    /\ task[i] = "waiting"
    /\ permits' = IF permits > 0 THEN permits - 1 ELSE 0
    /\ holds' = [holds EXCEPT ![i] = TRUE]
    /\ task' = [task EXCEPT ![i] = "admitted"]
    /\ UNCHANGED <<combinerVars, jobVars, pc, outcome, cancelled, parsed, invoked, outOfOrder,
                   collectVars>>

\* semaphore_ref.acquire_owned().await
AcquirePermit(i) ==
    /\ task[i] = "waiting"
    /\ permits > 0
    /\ permits' = permits - 1
    /\ holds' = [holds EXCEPT ![i] = TRUE]
    /\ task' = [task EXCEPT ![i] = "admitted"]
    /\ UNCHANGED <<combinerVars, jobVars, pc, outcome, cancelled, parsed, invoked, outOfOrder,
                   collectVars>>

\* (variant: no second check, the task goes on to parse and prove)
CheckAfterAcquireSkipped(i) ==
    /\ task[i] = "admitted"
    /\ task' = [task EXCEPT ![i] = "checked"]
    /\ UNCHANGED <<combinerVars, jobVars, pc, cancelled, outcome, permits, holds,
                   outOfOrder, parsed, invoked, collectVars>>

\* if cancellation_ref.is_cancelled() (after acquiring the permit)
CheckAfterAcquire(i) ==
    /\ task[i] = "admitted"
    /\ IF cancelled
       THEN /\ Finish(i, ErrOutcome("MalformedTask", "Task cancelled"))
       ELSE /\ task' = [task EXCEPT ![i] = "checked"]
            /\ UNCHANGED <<outcome, permits, holds, outOfOrder>>
    /\ UNCHANGED <<combinerVars, jobVars, pc, cancelled, parsed, invoked, collectVars>>

\* InputParser::parse_triple_input(&input_data)?  then the call of
\* ProvingEngine::prove_and_validate
ParseInput(i) ==
    /\ task[i] = "checked"
    /\ parsed' = [parsed EXCEPT ![i] = @ + 1]
    /\ IF ParseTripleInput(inputs[i])
       THEN /\ task' = [task EXCEPT ![i] = "proving"]
            /\ invoked' = [invoked EXCEPT ![i] = @ + 1]
            /\ UNCHANGED <<outcome, permits, holds, outOfOrder>>
       ELSE /\ Finish(i, ErrOutcome("MalformedTask", "Public inputs buffer too small"))
            /\ invoked' = invoked
    /\ UNCHANGED <<combinerVars, jobVars, pc, cancelled, collectVars>>

\* prove_and_validate(...).await? completes; generate_proof_hash; Ok(...)
ProveDone(i) ==
    /\ task[i] = "proving"
    /\ \/ \E p \in Proofs : Finish(i, OkOutcome(p, GenerateProofHash(p), i - 1))
       \/ \E e \in EngineErrors : Finish(i, ErrOutcome(e, "engine"))
       \/ Finish(i, PanicOutcome(i))
    /\ UNCHANGED <<combinerVars, jobVars, pc, cancelled, parsed, invoked, collectVars>>

(* ---- prove_fib_task: join_all and the result loop ---- *)
\* (variant: ready as soon as one handle has resolved)
JoinAnyReady == \E i \in Units : task[i] = "finished"
\* (variant: the outputs in reverse handle order)
JoinAllOutputReversed == [i \in Units |-> outcome[Len(inputs) + 1 - i]]

\* join_all(handles): ready once every handle has resolved
JoinAllReady == \A i \in Units : task[i] = "finished"
\* join_all yields the outputs in the order of the handles
JoinAllOutput == [i \in Units |-> outcome[i]]

JoinAll ==
    /\ pc = "joining"
    /\ JoinAllReady
    /\ results' = JoinAllOutput
    /\ resultIndex' = 1
    /\ pc' = "collect"
    /\ UNCHANGED <<combinerVars, jobVars, taskVars, cancelled, allProofs, proofHashes,
                   verificationFailures, reports, result>>

\* one iteration of  for (result_index, result) in results.into_iter().enumerate()
CollectResult ==
    /\ pc = "collect"
    /\ resultIndex <= Len(results)
    /\ LET r == results[resultIndex] IN
        /\ resultIndex' = resultIndex + 1
        /\ IF r.kind = "Ok"
           THEN /\ allProofs' = Append(allProofs, r.proof)
                /\ proofHashes' = Append(proofHashes, r.hash)
                /\ UNCHANGED <<verificationFailures, cancelled, result, pc>>
           ELSE IF r.kind = "Err" /\ IsVerificationFailure(r.err)
           THEN /\ verificationFailures' =
                        Append(verificationFailures, FailureMessage(resultIndex, r))
                /\ UNCHANGED <<allProofs, proofHashes, cancelled, result, pc>>
           ELSE IF r.kind = "Err"
           THEN /\ cancelled' = TRUE
                /\ result' = ErrResult(r.err, r.msg)
                /\ pc' = "done"
                /\ UNCHANGED <<allProofs, proofHashes, verificationFailures>>
           ELSE /\ result' = JoinErrResult(r.index)
                /\ pc' = "done"
                /\ UNCHANGED <<allProofs, proofHashes, verificationFailures, cancelled>>
    /\ UNCHANGED <<combinerVars, jobVars, taskVars, results, reports>>

\* (variant: the first collected failure is not reported)
SpawnReportsSkipFirst(failures) ==
    reports \o (IF failures = <<>> THEN <<>> ELSE Tail(failures))

\* for (task, error_msg, env, client) in verification_failures
\*     tokio::spawn(track_verification_failed(...))
SpawnReports(failures) == reports \o failures

\* (variant: the failure count is not looked at before returning Ok)
JobResultIgnoringFailures ==
    OkResult(allProofs, CombineProofHashes(taskType, proofHashes), proofHashes)

\* if failure_count > 0 { return Err(MalformedTask("{} inputs failed
\* verification")) }; combine_proof_hashes; Ok((all_proofs, final, proof_hashes))
JobResult ==
    IF Len(verificationFailures) > 0
    THEN FailedVerificationResult(Len(verificationFailures))
    ELSE OkResult(allProofs, CombineProofHashes(taskType, proofHashes), proofHashes)

\* after the loop: spawn the reports, then return the count error or the result
ReportAndReturn ==
    /\ pc = "collect"
    /\ resultIndex > Len(results)
    /\ reports' = SpawnReports(verificationFailures)
    /\ result' = JobResult
    /\ pc' = "done"
    /\ UNCHANGED <<combinerVars, jobVars, taskVars, cancelled, results, resultIndex, allProofs,
                   proofHashes, verificationFailures>>

Next ==
    \/ ProveAuthenticated
    \/ ProveFibTaskStart
    \/ SpawnTask
    \/ \E i \in Units : CheckBeforeStart(i)
    \/ \E i \in Units : AcquirePermit(i)
    \/ \E i \in Units : CheckAfterAcquire(i)
    \/ \E i \in Units : ParseInput(i)
    \/ \E i \in Units : ProveDone(i)
    \/ JoinAll
    \/ CollectResult
    \/ ReportAndReturn

Spec == Init /\ [][Next]_vars

(* ---- fair scheduling ---- *)
\* the steps of prove_authenticated / prove_fib_task itself
RunStep ==
    \/ ProveAuthenticated
    \/ ProveFibTaskStart
    \/ SpawnTask
    \/ JoinAll
    \/ CollectResult
    \/ ReportAndReturn

\* the steps of the task spawned for input i
TaskStep(i) ==
    /\ i \in Units
    /\ \/ CheckBeforeStart(i)
       \/ AcquirePermit(i)
       \/ CheckAfterAcquire(i)
       \/ ParseInput(i)
       \/ ProveDone(i)

\* a fib job of any inputs and worker count
InitFair ==
    /\ Init
    /\ programId = "fib_input_initial"
    /\ taskType = "ProofRequired"

\* the runtime keeps polling the caller and every spawned task, and every
\* call of prove_and_validate completes
FairSpec ==
    /\ InitFair
    /\ [][Next]_vars
    /\ WF_vars(RunStep)
    /\ \A i \in 1..MaxUnits : WF_vars(TaskStep(i))

(* ---- the tasks against a token that any holder may cancel ---- *)
\* CancellationToken::cancel() by a holder of the token while tasks are in
\* flight. prove_fib_task itself cancels only in CollectResult; this action
\* lets the token be cancelled at any moment after its creation.
CancelByAnyHolder ==
    /\ pc \in {"spawning", "joining"}
    /\ ~cancelled
    /\ cancelled' = TRUE
    /\ UNCHANGED <<combinerVars, jobVars, taskVars, collectVars, pc>>

\* a fib job of any inputs and worker count; the task type plays no part in
\* the tasks
InitOpenToken ==
    /\ Init
    /\ programId = "fib_input_initial"
    /\ taskType = "ProofRequired"

OpenTokenSpec == InitOpenToken /\ [][Next \/ CancelByAnyHolder]_vars

(* ---- combine_proof_hashes on its own ---- *)
\* the hashes generate_proof_hash can yield
HashValues == {GenerateProofHash(p) : p \in Proofs}
HashSeqs == UNION {[1..n -> HashValues] : n \in 0..MaxUnits}

InitCombiner ==
    /\ programId = "fib_input_initial"
    /\ taskType \in TaskTypes
    /\ inputs = <<>>
    /\ numWorkers = 0
    /\ PipelineIdle
    /\ cHashes \in HashSeqs
    /\ cOther \in HashSeqs
    /\ cOut = [given |-> NotCalled, other |-> NotCalled]

\* combine_proof_hashes(task, &cHashes)
CombineGiven ==
    /\ cOut.given = NotCalled
    /\ cOut' = [cOut EXCEPT !.given = CombineProofHashes(taskType, cHashes)]
    /\ UNCHANGED <<jobVars, taskVars, collectVars, pc, cancelled, cHashes, cOther>>

\* combine_proof_hashes(task, &cOther)
CombineOther ==
    /\ cOut.other = NotCalled
    /\ cOut' = [cOut EXCEPT !.other = CombineProofHashes(taskType, cOther)]
    /\ UNCHANGED <<jobVars, taskVars, collectVars, pc, cancelled, cHashes, cOther>>

NextCombiner == CombineGiven \/ CombineOther

CombinerSpec == InitCombiner /\ [][NextCombiner]_vars

(* ---- vocabulary of the properties ---- *)
FibJob == programId = "fib_input_initial"
Returned == pc = "done"
\* outcome kinds of a unit, as the design classifies them
UnitSucceeded(i) == outcome[i].kind = "Ok"
UnitRecoverable(i) == outcome[i].kind = "Err" /\ outcome[i].err \in RecoverableErrors
UnitCancelled(i) == outcome[i].kind = "Err" /\ outcome[i].msg = "Task cancelled"
UnitFatal(i) == outcome[i].kind = "Err" /\ outcome[i].err \notin RecoverableErrors
UnitPanicked(i) == outcome[i].kind = "Panic"
AllFinished == \A i \in Units : task[i] = "finished"
PermitsHeld == Cardinality({i \in Units : holds[i]})
InExecutor == Cardinality({i \in Units : task[i] = "proving"})
RecoverableUnits == {i \in Units : UnitRecoverable(i)}
\* the job-level errors
EmptyJobError == ErrResult("MalformedTask", "No inputs provided for task")
CountError == result.kind = "Err" /\ result.msg = "inputs failed verification"
\* the returned error is the error unit i ended with
ErrorOfUnit(i) ==
    \/ UnitFatal(i) /\ result = ErrResult(outcome[i].err, outcome[i].msg)
    \/ UnitPanicked(i) /\ result = JoinErrResult(outcome[i].index)
FatalJobError == result.kind = "Err" /\ \E i \in Units : ErrorOfUnit(i)
\* the reports that one report per recoverable unit, in index order, amounts to
RECURSIVE ExpectedReports(_)
ExpectedReports(n) ==
    IF n = 0 THEN <<>>
    ELSE IF UnitRecoverable(n)
         THEN Append(ExpectedReports(n - 1), [index |-> n - 1, err |-> outcome[n].err])
         ELSE ExpectedReports(n - 1)
\* run is blocked in join_all and no task can ever take a step
Hung == /\ pc = "joining"
        /\ permits = 0
        /\ \A i \in Units : task[i] = "waiting"

(* ---- C1 ---- *)
\* C1: when every unit of a non-empty job succeeds, run returns success and the
\* fingerprint list has one entry per input, the i-th entry being the
\* fingerprint of the proof that the i-th input's task produced, whatever the
\* order in which the tasks completed.
C1_SuccessInInputOrder ==
    (Returned /\ FibJob /\ Len(inputs) > 0 /\ \A i \in Units : UnitSucceeded(i))
        => /\ result.kind = "Ok"
           /\ Len(result.hashes) = Len(inputs)
           /\ Len(result.proofs) = Len(inputs)
           /\ \A i \in Units :
                /\ result.proofs[i] = outcome[i].proof
                /\ result.hashes[i] = GenerateProofHash(outcome[i].proof)

\* all units succeeded with different proofs, completing out of input order
C1_Witness ==
    /\ Returned /\ result.kind = "Ok"
    /\ Len(inputs) = MaxUnits
    /\ outOfOrder
    /\ outcome[1].proof # outcome[2].proof
    /\ result.hashes[1] # result.hashes[2]

(* ---- C2 ---- *)
\* C2: for an empty unit sequence run returns the empty-job error; the job
\* never reaches the spawning, joining or collecting positions, the semaphore
\* is never created and no parser or executor call is made.
C2_EmptyJobShortCircuits ==
    (FibJob /\ Len(inputs) = 0)
        => /\ pc \in {"entry", "fib", "done"}
           /\ (Returned => result = EmptyJobError)
           /\ permits = 0
           /\ \A i \in DOMAIN task : task[i] = "unspawned"
           /\ \A i \in DOMAIN invoked : invoked[i] = 0 /\ parsed[i] = 0

C2_Witness == FibJob /\ Len(inputs) = 0 /\ Returned /\ numWorkers > 0

(* ---- C3 ---- *)
\* C3: with num_workers = 0 and a non-empty job, run returns an error before
\* any unit runs: no parser or executor call is made, run does not hang in
\* join_all, and whatever run returns is an error.
C3_ZeroLimitIsConfigurationError ==
    (FibJob /\ numWorkers = 0 /\ Len(inputs) > 0)
        => /\ \A i \in Units : parsed[i] = 0 /\ invoked[i] = 0
           /\ ~Hung
           /\ (Returned => result.kind = "Err")

(* ---- C4 ---- *)
\* C4: the number of tasks inside the executor, and the number of permits
\* held, never exceed num_workers; held and free permits add up to
\* num_workers once the semaphore exists.
C4_AdmissionBound ==
    /\ InExecutor <= numWorkers
    /\ PermitsHeld <= numWorkers
    /\ \A i \in Units : task[i] \in {"admitted", "checked", "proving"} <=> holds[i]
    /\ (pc \notin {"entry", "fib"} /\ FibJob /\ Len(inputs) > 0)
            => permits + PermitsHeld = numWorkers

\* the limit binds: every permit is taken and a task is queued for one
C4_Witness ==
    /\ numWorkers = MaxWorkers
    /\ InExecutor = numWorkers
    /\ \E i \in Units : task[i] = "waiting"

(* ---- C5 ---- *)
\* C5: once a unit has produced a fatal failure the cancellation signal is
\* set, so a unit that has not yet started does not pass its cancellation
\* check (it resolves as cancelled instead of queueing for a permit).
C5_FatalCancelsUnstartedUnits ==
    [][\A j \in Units :
          (task[j] = "start" /\ \E i \in Units : UnitFatal(i))
              => task'[j] # "waiting"]_vars

(* ---- C6 ---- *)
\* C6: if at least one unit ended with a fatal error, run returns the
\* error some unit ended with (a fatal error or a join failure), never
\* success and never the count of failed verifications.
C6_FatalTakesPrecedence ==
    (Returned /\ \E i \in Units : UnitFatal(i))
        => /\ result.kind = "Err"
           /\ ~CountError
           /\ \E i \in Units : ErrorOfUnit(i)

\* a fatal unit after a recoverable one: the fatal error is returned
C6_Witness ==
    /\ Returned
    /\ Len(inputs) = MaxUnits
    /\ UnitRecoverable(1) /\ UnitSucceeded(2) /\ UnitFatal(3)
    /\ result = ErrResult(outcome[3].err, outcome[3].msg)

(* ---- C7 ---- *)
\* C7: if k >= 1 units ended with a recoverable error, the others succeeded
\* and none was fatal, run returns the failed-verification error with count
\* k; and that error is only ever returned when every task has finished.
C7_PartialFailureCount ==
    /\ (Returned /\ FibJob /\ RecoverableUnits # {}
            /\ \A i \in Units : UnitSucceeded(i) \/ UnitRecoverable(i))
        => result = FailedVerificationResult(Cardinality(RecoverableUnits))
    /\ CountError => AllFinished /\ PermitsHeld = 0

\* two of three units failed verification, in both recoverable kinds
C7_Witness ==
    /\ Returned /\ CountError /\ result.count = 2
    /\ Len(inputs) = MaxUnits
    /\ outcome[1].err = "Stwo" /\ UnitSucceeded(2) /\ outcome[3].err = "GuestProgram"

(* ---- C8 ---- *)
\* C8: whenever run returns the error of a unit (a fatal error or a join
\* failure), the cancellation signal has been set.
C8_FatalReturnSetsCancellation ==
    (Returned /\ FatalJobError) => cancelled

(* ---- C9 ---- *)
\* C9 (as stated): in every execution of run the reports dispatched are
\* exactly one per unit that ended with a recoverable failure, each with that
\* unit's index and error.
C9_ReportPerRecoverableFailure ==
    (Returned /\ FibJob) => reports = ExpectedReports(Len(inputs))

\* C9 (amended): when run returns without a fatal or join error the reports
\* dispatched are exactly one per recoverable unit, in index order, each with
\* that unit's index and error; when run returns a fatal or join error no
\* report is dispatched; and none is dispatched before run returns.
C9_ReportsUnlessFatal ==
    /\ (Returned /\ FibJob /\ ~FatalJobError) => reports = ExpectedReports(Len(inputs))
    /\ (Returned /\ FibJob /\ FatalJobError) => reports = <<>>
    /\ ~Returned => reports = <<>>

\* two recoverable failures were reported
C9_Witness ==
    /\ Returned /\ CountError
    /\ Len(reports) = 2
    /\ reports[1] = [index |-> 0, err |-> "GuestProgram"]
    /\ reports[2] = [index |-> 2, err |-> "Stwo"]

(* ---- C10 ---- *)
\* C10: when run returns and some unit has produced a result, every spawned
\* task has finished and no permit is held.
C10_AllHandlesDrained ==
    (Returned /\ \E i \in Units : outcome[i].kind # "none")
        => /\ AllFinished
           /\ PermitsHeld = 0
           /\ permits = numWorkers

\* run returned a fatal error of the first unit, with all three tasks finished
C10_Witness ==
    /\ Returned /\ Len(inputs) = MaxUnits
    /\ UnitFatal(1) /\ result = ErrResult(outcome[1].err, outcome[1].msg)
    /\ outOfOrder
    /\ invoked[2] = 1 /\ invoked[3] = 1


(* ---- C11 ---- *)
\* C11: run returns success only if every unit's outcome is Success, and the
\* success result then holds one proof and one fingerprint per unit; in every
\* other case what run returns is a job-level error.
C11_NoPartialResult ==
    Returned =>
        /\ result.kind \in {"Ok", "Err"}
        /\ result.kind = "Ok" =>
              /\ FibJob /\ Len(inputs) > 0
              /\ \A i \in Units : UnitSucceeded(i)
              /\ Len(result.proofs) = Len(inputs)
              /\ Len(result.hashes) = Len(inputs)
        /\ (\E i \in Units : ~UnitSucceeded(i)) => result.kind = "Err"

\* a job in which one unit failed verification and the others succeeded
\* returned an error, not the two proofs it has
C11_Witness ==
    /\ Returned /\ result.kind = "Err"
    /\ Len(inputs) = MaxUnits
    /\ Len(allProofs) = MaxUnits - 1
    /\ UnitRecoverable(2)

(* ---- C12 ---- *)
ChainKind == taskType \in {"AllProofHashes", "ProofHash"}
Occurrences(hs, v) == Cardinality({i \in DOMAIN hs : hs[i] = v})
IsPermutation(a, b) ==
    /\ Len(a) = Len(b)
    /\ \A v \in HashValues : Occurrences(a, v) = Occurrences(b, v)

\* C12: combine_proof_hashes returns a value for every task type and every
\* sequence, the empty value for the empty sequence; for AllProofHashes and
\* ProofHash the value is the chained fold of the sequence in order, and two
\* different orders of the same hashes give different values; for every other
\* type the value is the first hash, so two sequences with the same first
\* hash give the same value.
C12_CombinerContract ==
    /\ cOut.given # NotCalled =>
          /\ cOut.given \in Nat
          /\ cHashes = <<>> => cOut.given = 0
          /\ (ChainKind /\ cHashes # <<>>) => cOut.given = ChainHashes(0, cHashes)
          /\ (~ChainKind /\ cHashes # <<>>) => cOut.given = cHashes[1]
    /\ (cOut.given # NotCalled /\ cOut.other # NotCalled) =>
          /\ cHashes = cOther => cOut.given = cOut.other
          /\ (ChainKind /\ IsPermutation(cHashes, cOther) /\ cHashes # cOther)
                => cOut.given # cOut.other
          /\ (~ChainKind /\ cHashes # <<>> /\ cOther # <<>> /\ cHashes[1] = cOther[1])
                => cOut.given = cOut.other

\* a ProofHash task: two orders of the same three hashes were combined
C12_Witness ==
    /\ taskType = "ProofHash"
    /\ Len(cHashes) = MaxUnits
    /\ IsPermutation(cHashes, cOther) /\ cHashes # cOther
    /\ cOut.given # NotCalled /\ cOut.other # NotCalled
    /\ cOut.given # cOut.other

UnitFailedFatally(i) == UnitFatal(i) /\ ~UnitCancelled(i)

\* C14: as long as no unit has ended with a fatal error the token is not
\* cancelled and no unit has resolved to the cancelled outcome; and when run
\* returns from a job without a fatal unit, every unit has invoked the
\* executor.
C14_RecoverableNeverCancels ==
    /\ (~\E i \in Units : UnitFailedFatally(i))
          => /\ ~cancelled
             /\ \A i \in Units : ~UnitCancelled(i)
    /\ (Returned /\ FibJob /\ Len(inputs) > 0 /\ ~\E i \in Units : UnitFailedFatally(i))
          => \A i \in Units : invoked[i] = 1

\* the first unit failed verification with one worker: the later units still
\* ran the executor and the token was never cancelled
C14_Witness ==
    /\ Returned /\ CountError /\ ~cancelled
    /\ numWorkers = 1 /\ Len(inputs) = MaxUnits
    /\ UnitRecoverable(1)
    /\ \A i \in Units : invoked[i] = 1

(* ---- C15 ---- *)
CancelledOutcome == ErrOutcome("MalformedTask", "Task cancelled")

InCriticalSection(i) == task[i] \in {"admitted", "checked", "proving"}

\* C16: a task owns a permit exactly from the acquisition to the end of the
\* task body, so the permits out are as many as the tasks in that section,
\* held and free permits add up to num_workers, and all permits are free once
\* every task has ended, however it ended.
C16_PermitScopedToCriticalSection ==
    /\ \A i \in Units : holds[i] <=> InCriticalSection(i)
    /\ PermitsHeld = Cardinality({i \in Units : InCriticalSection(i)})
    /\ \A i \in Units : (parsed[i] > 0 /\ task[i] # "finished") => holds[i]
    /\ (FibJob /\ Len(inputs) > 0 /\ AllFinished)
          => PermitsHeld = 0 /\ permits = numWorkers

\* three tasks ended as success, fatal failure and cancelled: all permits free
C16_Witness ==
    /\ AllFinished /\ Len(inputs) = MaxUnits /\ numWorkers = MaxWorkers
    /\ \E i \in Units : UnitSucceeded(i)
    /\ \E i \in Units : UnitFailedFatally(i)
    /\ \E i \in Units : UnitCancelled(i)
    /\ permits = numWorkers

(* ---- C17 ---- *)
ParseFailed(i) == parsed[i] > 0 /\ ~ParseTripleInput(inputs[i])

\* C17: the executor is only ever invoked after the input has parsed; a unit
\* whose input fails parsing ends with a fatal (not a recoverable) error
\* without invoking the executor, and run then returns the error of a unit,
\* not the count of failed verifications.
C17_ParseFailureIsFatal ==
    /\ \A i \in Units : invoked[i] > 0 => (parsed[i] = 1 /\ ParseTripleInput(inputs[i]))
    /\ \A i \in Units :
          (ParseFailed(i) /\ task[i] = "finished")
              => /\ invoked[i] = 0
                 /\ UnitFailedFatally(i)
                 /\ ~UnitRecoverable(i)
    /\ (Returned /\ \E i \in Units : ParseFailed(i))
          => /\ result.kind = "Err"
             /\ ~CountError
             /\ FatalJobError

\* the parse error of the second unit is returned although the first unit
\* failed verification
C17_Witness ==
    /\ Returned /\ Len(inputs) = MaxUnits
    /\ UnitRecoverable(1)
    /\ ParseFailed(2) /\ invoked[2] = 0
    /\ result = ErrResult("MalformedTask", "Public inputs buffer too small")

(* ---- C18 ---- *)
\* C18: for a non-empty job with num_workers >= 1, under fair scheduling and
\* with every executor call completing, every task ends and run returns.
C18_Termination ==
    (FibJob /\ numWorkers >= 1 /\ Len(inputs) > 0) ~> (Returned /\ AllFinished)

\* run returned from a job of three units that shared one permit
C18_Witness ==
    /\ Returned /\ AllFinished
    /\ numWorkers = 1 /\ Len(inputs) = MaxUnits
    /\ \A i \in Units : invoked[i] = 1

(* ---- C19 ---- *)
FailedUnits == {i \in Units : UnitFatal(i) \/ UnitPanicked(i)}
FirstFailedUnit == CHOOSE i \in FailedUnits : \A j \in FailedUnits : i <= j

\* C19: when some units ended with a fatal error or a panic, run returns the
\* error of the one of lowest input index among them, whatever order the
\* units completed in and whatever recoverable failures precede it.
C19_LowestIndexWins ==
    (Returned /\ FibJob /\ FailedUnits # {}) => ErrorOfUnit(FirstFailedUnit)

\* a recoverable failure, then a panic, then a parse error, completed out of
\* order: the join error of the second unit is returned
C19_Witness ==
    /\ Returned /\ Len(inputs) = MaxUnits /\ outOfOrder
    /\ UnitRecoverable(1) /\ UnitPanicked(2) /\ UnitFatal(3)
    /\ result = JoinErrResult(outcome[2].index)
    /\ result # ErrResult(outcome[3].err, outcome[3].msg)

(* ---- C20 ---- *)
\* C20: no unit invokes the parser or the executor more than once; when
\* prove_authenticated returns success every unit has invoked the executor
\* exactly once and every proof and fingerprint returned is the one the
\* executor produced for that unit, not the synthetic one of
\* exploit_proof_hash_task.
C20_NoBypassOfProving ==
    /\ \A i \in Units : invoked[i] <= 1 /\ parsed[i] <= 1
    /\ (Returned /\ result.kind = "Ok")
          => /\ FibJob
             /\ \A i \in Units :
                   /\ invoked[i] = 1
                   /\ result.proofs[i] \in Proofs
                   /\ result.proofs[i] # FakeProof
                   /\ result.hashes[i] = GenerateProofHash(result.proofs[i])

\* a ProofHash task returned success after one executor call per unit
C20_Witness ==
    /\ Returned /\ result.kind = "Ok"
    /\ taskType = "ProofHash"
    /\ Len(inputs) = MaxUnits
    /\ \A i \in Units : invoked[i] = 1

TypeOK ==
    /\ pc \in {"entry", "fib", "spawning", "joining", "collect", "done"}
    /\ \A i \in Units : task[i] \in {"unspawned", "start", "waiting", "admitted",
                                      "checked", "proving", "finished"}
    /\ permits \in 0..MaxWorkers
    /\ cancelled \in BOOLEAN
====
